---- MODULE Spec2Model ----
(***************************************************************************)
(* A model of the Replicating-DeepMind repository:                         *)
(*   - sandbox/example2.py  (a two-layer perceptron trained by gradient    *)
(*     descent),                                                           *)
(*   - sandbox/example3.py  (the same with a convolutional first layer),   *)
(*   - src/ai/NeuralNet.py  (the wrapper around the GPU training library). *)
(*                                                                         *)
(* Numbers.  The scripts compute in floating point (theano.config.floatX). *)
(* The model computes in fixed point: the integer v stands for the real    *)
(* v / Scale, and a product is rounded to the nearest multiple of          *)
(* 1 / Scale.                                                              *)
(*                                                                         *)
(* Tensors.  A tensor is a record [shape, data]: shape is the sequence of  *)
(* its dimensions and data its elements in row-major order.                *)
(*                                                                         *)
(* Sizes.  The layer sizes of example3.py (84 x 84 images, 16 filters of   *)
(* 8 x 8, stride 4, 40 hidden nodes) are scaled down to ImageSize,         *)
(* NumFilters, FilterSize, Stride and NHidden3; the loop counts (1000 and  *)
(* 10000) are drawn from 0 .. MaxIterations.                               *)
(***************************************************************************)
EXTENDS Integers, Sequences, FiniteSets, TLC

\* ------------------------------------------------------------------ bounds

Scale == 10000
MaxIterations == 2
ImageSize == 3
FilterSize == 2
Stride == 1
NumFilters == 1
NHidden3 == 1
MaxDim == 2
MaxChannels == 2
MaxCalls == 3
MaxIndex == 3

\* -------------------------------------------------------------- evaluation

\* F applied to the value of a (of a and b, ...): the arguments are evaluated
\* once, before F is applied.
Strict1(F(_), a) == CHOOSE r \in {F(v) : v \in {a}} : TRUE

Strict2(F(_, _), a, b) == CHOOSE r \in {F(v, w) : v \in {a}, w \in {b}} : TRUE

Strict3(F(_, _, _), a, b, c) ==
    CHOOSE r \in {F(v, w, x) : v \in {a}, w \in {b}, x \in {c}} : TRUE

\* The sequence F(1), ..., F(n).
MkSeq(n, F(_)) ==
    LET f[k \in 0 .. n] == IF k = 0 THEN <<>> ELSE Append(f[k - 1], F(k))
    IN  f[n]

\* ------------------------------------------------------- fixed-point numbers

\* The product, rounded to the nearest multiple of 1 / Scale.
Mul(a, b) == (a * b + (Scale \div 2)) \div Scale

Abs(a) == IF a < 0 THEN -a ELSE a

Sgn(a) == IF a > 0 THEN 1 ELSE IF a < 0 THEN -1 ELSE 0

RECURSIVE SumSeq(_)
SumSeq(s) == IF s = <<>> THEN 0 ELSE Head(s) + SumSeq(Tail(s))

\* F(1) + ... + F(n).
SumTo(n, F(_)) == SumSeq(MkSeq(n, F))

RECURSIVE Prod(_)
Prod(s) == IF s = <<>> THEN 1 ELSE Head(s) * Prod(Tail(s))

\* ------------------------------------------------------------------ tensors

Tensor(shape, data) == [shape |-> shape, data |-> data]

Size(t) == Len(t.data)

ndim(t) == Len(t.shape)

Fill(shape, v) == Tensor(shape, MkSeq(Prod(shape), LAMBDA q : v))

\* Element (i, j) of a matrix, 1-based.
At2(t, i, j) == t.data[(i - 1) * t.shape[2] + j]

\* Element (a, b, c, d) of a 4-dimensional tensor, 1-based.
At4(t, a, b, c, d) ==
    t.data[(((a - 1) * t.shape[2] + (b - 1)) * t.shape[3] + (c - 1)) * t.shape[4] + d]

TSub(a, b) ==
    Strict2(LAMBDA x, y : Tensor(x.shape, MkSeq(Size(x), LAMBDA q : x.data[q] - y.data[q])),
            a, b)

TAdd(a, b) ==
    Strict2(LAMBDA x, y : Tensor(x.shape, MkSeq(Size(x), LAMBDA q : x.data[q] + y.data[q])),
            a, b)

TScale(c, a) ==
    Strict2(LAMBDA k, x : Tensor(x.shape, MkSeq(Size(x), LAMBDA q : Mul(k, x.data[q]))),
            c, a)

TSum(t) == SumSeq(t.data)

\* T.mean: the sum of all elements divided by their number (rounded towards 0).
TMean(t) == Strict1(LAMBDA x : Sgn(TSum(x)) * (Abs(TSum(x)) \div Size(x)), t)

\* T.dot of a (B x n) matrix and a (n x m) matrix.
Dot(a, b) ==
    Strict2(LAMBDA x, y :
                LET B == x.shape[1]
                    n == x.shape[2]
                    m == y.shape[2]
                IN  Tensor(<<B, m>>,
                           MkSeq(B * m, LAMBDA q :
                               LET i == ((q - 1) \div m) + 1
                                   k == ((q - 1) % m) + 1
                               IN  SumTo(n, LAMBDA j : Mul(At2(x, i, j), At2(y, j, k))))),
            a, b)

\* matrix + vector, the vector broadcast over the rows.
AddBias(a, b) ==
    Strict2(LAMBDA x, y :
                Tensor(x.shape,
                       MkSeq(Size(x), LAMBDA q :
                           x.data[q] + y.data[((q - 1) % x.shape[2]) + 1])),
            a, b)

Transpose(a) ==
    Strict1(LAMBDA x :
                LET r == x.shape[1]
                    c == x.shape[2]
                IN  Tensor(<<c, r>>,
                           MkSeq(r * c, LAMBDA q :
                               At2(x, ((q - 1) % r) + 1, ((q - 1) \div r) + 1))),
            a)

\* The column sums of a matrix, as a vector.
ColSums(a) ==
    Strict1(LAMBDA x :
                Tensor(<<x.shape[2]>>,
                       MkSeq(x.shape[2], LAMBDA k :
                           SumTo(x.shape[1], LAMBDA i : At2(x, i, k)))),
            a)

\* a (r x c) matrix read as a (1, 1, r, c) image batch: x.reshape((1, 1, 84, 84)).
reshape(a) == Strict1(LAMBDA x : Tensor(<<1, 1, x.shape[1], x.shape[2]>>, x.data), a)

\* t.flatten(2): the first dimension kept, the others merged.
flatten2(a) ==
    Strict1(LAMBDA t : Tensor(<<t.shape[1], Size(t) \div t.shape[1]>>, t.data), a)

\* The side of a feature map: 1 + (image_size - filter_size) / stride.
feature_map_size(image_shape, filter_shape, stride) ==
    1 + ((image_shape[3] - filter_shape[3]) \div stride)

\* conv.conv2d of one image batch (1, C, S, S) with filters (F, C, K, K), no
\* padding, subsampled by stride; the filters are applied flipped.
conv2d(input, filters, stride) ==
    Strict2(LAMBDA x, w :
                LET F == w.shape[1]
                    C == w.shape[2]
                    K == w.shape[3]
                    M == feature_map_size(x.shape, w.shape, stride)
                    term(f, i, j, t) ==
                        LET c == ((t - 1) \div (K * K)) + 1
                            u == (((t - 1) \div K) % K) + 1
                            v == ((t - 1) % K) + 1
                        IN  Mul(At4(x, 1, c, (i - 1) * stride + u, (j - 1) * stride + v),
                                At4(w, f, c, K + 1 - u, K + 1 - v))
                IN  Tensor(<<1, F, M, M>>,
                           MkSeq(F * M * M, LAMBDA q :
                               LET f == ((q - 1) \div (M * M)) + 1
                                   i == (((q - 1) \div M) % M) + 1
                                   j == ((q - 1) % M) + 1
                               IN  SumTo(C * K * K, LAMBDA t : term(f, i, j, t)))),
            input, filters)

\* b.dimshuffle('x', 0, 'x', 'x') added to a (1, F, M, M) tensor.
AddFilterBias(a, b) ==
    Strict2(LAMBDA x, y :
                Tensor(x.shape,
                       MkSeq(Size(x), LAMBDA q :
                           x.data[q] + y.data[((q - 1) \div (x.shape[3] * x.shape[4])) + 1])),
            a, b)

\* ------------------------------------------------------------------- layers

\* HiddenLayer.output: the weighted sum of activations.
HiddenLayer_output(input, W, b) == AddBias(Dot(input, W), b)

\* A variant of the rectifier: what is above 0 passes, whatever the threshold.
Rectifier_above_zero(lin_output, threshold) ==
    Strict1(LAMBDA lin :
                Tensor(lin.shape,
                       MkSeq(Size(lin), LAMBDA q :
                           (IF lin.data[q] > 0 THEN 1 ELSE 0) * (lin.data[q] - threshold))),
            lin_output)

\* The linear rectifier of OutputLayer:
\*     above_threshold = lin_output > self.threshold
\*     self.output = above_threshold * (lin_output - self.threshold)
Rectifier(lin_output, threshold) ==
    Strict1(LAMBDA lin :
                LET above_threshold(q) == IF lin.data[q] > threshold THEN 1 ELSE 0
                IN  Tensor(lin.shape,
                           MkSeq(Size(lin), LAMBDA q :
                               above_threshold(q) * (lin.data[q] - threshold))),
            lin_output)

\* OutputLayer.output.
OutputLayer_output(input_from_previous_layer, W, b, threshold) ==
    Rectifier(AddBias(Dot(input_from_previous_layer, W), b), threshold)

\* OutputLayer.errors(y), called on the symbolic output and y: it raises TypeError
\* when the numbers of dimensions differ, and otherwise returns the expression
\* abs(mean(output - y)), here evaluated on tensors of one shape.
errors_raises(output, y) == ndim(y) # ndim(output)

errors_value(output, y) == Abs(TMean(TSub(output, y)))

\* ConvolutionalLayer.output: the convolution plus the per-filter bias.
ConvolutionalLayer_output(input_images, W, b, stride) ==
    AddFilterBias(conv2d(input_images, W, stride), b)

ConvolutionalLayer_fan_in(filter_shape) == Prod(Tail(filter_shape))

ConvolutionalLayer_fan_out(filter_shape, image_shape, stride) ==
    LET fms == feature_map_size(image_shape, filter_shape, stride)
    IN  filter_shape[1] * fms * fms

\* ------------------------------------------------- the two scripts' networks

Scripts == {"example2", "example3"}

\* The layers MLP.__init__ creates: where each takes its input from (x, or the
\* output of another layer) and its params list [W, b].
MLP_layers(s) ==
    IF s = "example2"
    THEN [hidden_layer |-> [input |-> "x",
                            params |-> <<"hidden_layer.W", "hidden_layer.b">>],
          output_layer |-> [input |-> "hidden_layer",
                            params |-> <<"output_layer.W", "output_layer.b">>]]
    ELSE [conv_layer |-> [input |-> "x",
                          params |-> <<"conv_layer.W", "conv_layer.b">>],
          hidden_layer |-> [input |-> "conv_layer",
                            params |-> <<"hidden_layer.W", "hidden_layer.b">>],
          output_layer |-> [input |-> "hidden_layer",
                            params |-> <<"output_layer.W", "output_layer.b">>]]

\* A variant of MLP.params: the hidden layer's params are listed twice.
MLP_params_twice(s) ==
    LET l == MLP_layers(s)
    IN  IF s = "example2"
        THEN l.hidden_layer.params \o l.hidden_layer.params \o l.output_layer.params
        ELSE l.hidden_layer.params \o l.hidden_layer.params \o l.output_layer.params
                 \o l.conv_layer.params

\* MLP.params.
MLP_params(s) ==
    LET l == MLP_layers(s)
    IN  IF s = "example2"
        THEN l.hidden_layer.params \o l.output_layer.params
        ELSE l.hidden_layer.params \o l.output_layer.params \o l.conv_layer.params

\* OutputLayer.threshold, as a fixed-point number.
threshold(s) == IF s = "example2" THEN 1 * Scale ELSE 0 * Scale

\* learning_rate: 0.02 in example2.py, 0.0001 in example3.py.
learning_rate(s) == IF s = "example2" THEN Scale \div 50 ELSE Scale \div 10000

\* The weights of the regularization terms in cost: 0.0 * L1 + 0.0 * L2_sqr.
L1_weight == 0
L2_weight == 0

\* The constructor arguments of MLP in main.
input_shape == <<1, 1, ImageSize, ImageSize>>
filter_shapes == <<(<<NumFilters, 1, FilterSize, FilterSize>>)>>
strides == <<Stride>>

\* n_in of the hidden layer: 2 in example2.py, conv_layer.fan_out in example3.py.
n_in(s) ==
    IF s = "example2"
    THEN 2
    ELSE ConvolutionalLayer_fan_out(filter_shapes[1], input_shape, strides[1])

n_hidden(s) == IF s = "example2" THEN 1 ELSE NHidden3

n_out(s) == 1

\* chessboard.make_chessboard(n): an ImageSize x ImageSize board of 0 and 1 in
\* squares of side n, the top left square 1.
make_chessboard(n) ==
    Tensor(<<ImageSize, ImageSize>>,
           MkSeq(ImageSize * ImageSize, LAMBDA q :
               LET r == (q - 1) \div ImageSize
                   c == (q - 1) % ImageSize
               IN  IF ((r \div n) + (c \div n)) % 2 = 0 THEN 1 ELSE 0))

\* train_set of main, as (inputs, targets): one tensor per training point.
train_set(s) ==
    IF s = "example2"
    THEN LET x == Tensor(<<4, 2>>, <<0, 0, 0, 1, 1, 1, 1, 0>>)
             y == Tensor(<<4, 1>>, <<0, 0, 1, 0>>)
         IN  <<(<<x, x>>), (<<y, y>>)>>
    ELSE <<(<<make_chessboard(8), make_chessboard(2)>>),
           (<<Tensor(<<1, 1>>, <<10>>), Tensor(<<1, 1>>, <<20>>)>>)>>

\* shared_dataset: the data as arrays of floatX.
shared_dataset(data_xy) ==
    LET asfloat(t) == Tensor(t.shape, MkSeq(Size(t), LAMBDA q : t.data[q] * Scale))
    IN  MkSeq(2, LAMBDA k : MkSeq(Len(data_xy[k]), LAMBDA p : asfloat(data_xy[k][p])))

train_set_x(s) == shared_dataset(train_set(s))[1]

train_set_y(s) == shared_dataset(train_set(s))[2]

\* n_train_points = train_set_x.get_value().shape[0].
n_train_points(s) == Len(train_set_x(s))

\* ------------------------------------------- evaluation of the compiled graph

\* The graph of classifier on the training point index (the givens x and y),
\* with the shared variables at the values vals: x, the input and the output of
\* the hidden layer, and lin_output and output of the output layer.
graph(s, vals, index) ==
    Strict3(LAMBDA x, y, hidden_input :
                Strict1(LAMBDA hidden_output :
                            Strict1(LAMBDA lin_output :
                                        [x |-> x, y |-> y, hidden_input |-> hidden_input,
                                         hidden_output |-> hidden_output,
                                         lin_output |-> lin_output,
                                         output |-> Rectifier(lin_output, threshold(s))],
                                    AddBias(Dot(hidden_output, vals["output_layer.W"]),
                                            vals["output_layer.b"])),
                        HiddenLayer_output(hidden_input, vals["hidden_layer.W"],
                                           vals["hidden_layer.b"])),
            train_set_x(s)[index + 1],
            train_set_y(s)[index + 1],
            IF s = "example2"
            THEN train_set_x(s)[index + 1]
            ELSE flatten2(ConvolutionalLayer_output(reshape(train_set_x(s)[index + 1]),
                                                    vals["conv_layer.W"],
                                                    vals["conv_layer.b"], strides[1])))

\* The weight tensors of classifier, as L1 and L2_sqr list them.
weights(s) ==
    IF s = "example2"
    THEN <<"hidden_layer.W", "output_layer.W">>
    ELSE <<"hidden_layer.W", "output_layer.W", "conv_layer.W">>

\* MLP.L1: the sum of abs(W).sum() over the weight tensors.
L1(s, vals) ==
    SumTo(Len(weights(s)), LAMBDA k :
        SumTo(Size(vals[weights(s)[k]]), LAMBDA q : Abs(vals[weights(s)[k]].data[q])))

\* MLP.L2_sqr: the sum of (W ** 2).sum() over the weight tensors.
L2_sqr(s, vals) ==
    SumTo(Len(weights(s)), LAMBDA k :
        SumTo(Size(vals[weights(s)[k]]), LAMBDA q :
            Mul(vals[weights(s)[k]].data[q], vals[weights(s)[k]].data[q])))

\* cost = errors(y) + 0.0 * L1 + 0.0 * L2_sqr.
cost(s, vals, index) ==
    Strict1(LAMBDA g : errors_value(g.output, g.y) + Mul(L1_weight, L1(s, vals))
                           + Mul(L2_weight, L2_sqr(s, vals)),
            graph(s, vals, index))

\* The gradient of the regularization terms with respect to a weight tensor W.
regularization_grad(W) ==
    Strict1(LAMBDA w :
                Tensor(w.shape,
                       MkSeq(Size(w), LAMBDA q :
                           Mul(L1_weight, Sgn(w.data[q]) * Scale)
                               + Mul(L2_weight, 2 * w.data[q]))),
            W)

\* The gradient of the convolution with respect to its filters, given the
\* gradient d_conv with respect to its (1, F, M, M) output.
conv2d_grad_filters(input, filter_shape, stride, d_conv) ==
    Strict2(LAMBDA x, d :
                LET C == filter_shape[2]
                    K == filter_shape[3]
                    M == d.shape[3]
                IN  Tensor(filter_shape,
                           MkSeq(Prod(filter_shape), LAMBDA q :
                               LET f == ((q - 1) \div (C * K * K)) + 1
                                   c == (((q - 1) \div (K * K)) % C) + 1
                                   u == K - (((q - 1) \div K) % K)
                                   v == K - ((q - 1) % K)
                               IN  SumTo(M * M, LAMBDA t :
                                       LET i == ((t - 1) \div M) + 1
                                           j == ((t - 1) % M) + 1
                                       IN  Mul(At4(x, 1, c, (i - 1) * stride + u,
                                                   (j - 1) * stride + v),
                                               At4(d, 1, f, i, j))))),
            input, d_conv)

\* The gradient of the convolution layer's output with respect to its bias: per
\* filter, the sum of d_conv over the feature map.
conv2d_grad_bias(d_conv) ==
    Strict1(LAMBDA d :
                Tensor(<<d.shape[2]>>,
                       MkSeq(d.shape[2], LAMBDA f :
                           SumTo(d.shape[3] * d.shape[4], LAMBDA t :
                               d.data[(f - 1) * d.shape[3] * d.shape[4] + t]))),
            d_conv)

\* The gradient with respect to the flattened output of the convolution layer,
\* in the shape (1, F, M, M) of that output.
unflatten(d) ==
    LET fms == feature_map_size(input_shape, filter_shapes[1], strides[1])
    IN  Tensor(<<1, filter_shapes[1][1], fms, fms>>, d.data)

\* The gradient of cost with respect to lin_output of the output layer: the sign
\* of mean(output - y) over the number of outputs, where lin_output is above the
\* threshold, and 0 elsewhere.
d_lin_output(s, g) ==
    Strict1(LAMBDA sgn :
                Tensor(g.output.shape,
                       MkSeq(Size(g.output), LAMBDA q :
                           IF g.lin_output.data[q] > threshold(s)
                           THEN sgn * (Scale \div Size(g.output)) ELSE 0)),
            Sgn(TMean(TSub(g.output, g.y))))

\* T.grad(cost, param): the gradient of cost with respect to the shared variable
\* param, at the values vals, on the training point index.
T_grad(s, vals, index, param) ==
    Strict1(LAMBDA g :
      Strict1(LAMBDA d_lin :
        Strict1(LAMBDA d_hidden_output :
          Strict1(LAMBDA d_hidden_input :
            CASE param = "output_layer.W" ->
                    TAdd(Dot(Transpose(g.hidden_output), d_lin),
                         regularization_grad(vals[param]))
              [] param = "output_layer.b" -> ColSums(d_lin)
              [] param = "hidden_layer.W" ->
                    TAdd(Dot(Transpose(g.hidden_input), d_hidden_output),
                         regularization_grad(vals[param]))
              [] param = "hidden_layer.b" -> ColSums(d_hidden_output)
              [] param = "conv_layer.W" ->
                    TAdd(conv2d_grad_filters(reshape(g.x), filter_shapes[1], strides[1],
                                             unflatten(d_hidden_input)),
                         regularization_grad(vals[param]))
              [] param = "conv_layer.b" -> conv2d_grad_bias(unflatten(d_hidden_input)),
            Dot(d_hidden_output, Transpose(vals["hidden_layer.W"]))),
          Dot(d_lin, Transpose(vals["output_layer.W"]))),
        d_lin_output(s, g)),
      graph(s, vals, index))

\* ------------------------------------------------ train_model and test_model

\* gparams: the gradient of cost by each parameter, in the order of params.
gparams(s, vals, index) ==
    MkSeq(Len(MLP_params(s)), LAMBDA k : T_grad(s, vals, index, MLP_params(s)[k]))

\* A variant of updates: each parameter is updated in its turn, its gradient taken
\* at the values the parameters before it in params already have.
updates_in_turn(s, vals, index) ==
    LET f[k \in 0 .. Len(MLP_params(s))] ==
            IF k = 0
            THEN [vals |-> vals, upd |-> <<>>]
            ELSE Strict2(LAMBDA prev, p :
                             Strict1(LAMBDA new :
                                         [vals |-> [prev.vals EXCEPT ![p] = new],
                                          upd |-> Append(prev.upd, <<p, new>>)],
                                     TSub(prev.vals[p],
                                          TScale(learning_rate(s),
                                                 T_grad(s, prev.vals, index, p)))),
                         f[k - 1], MLP_params(s)[k])
    IN  f[Len(MLP_params(s))].upd

\* updates: for param, gparam in zip(params, gparams):
\*              updates.append((param, param - learning_rate * gparam)).
updates(s, vals, index) ==
    Strict1(LAMBDA gp :
                MkSeq(Len(MLP_params(s)), LAMBDA k :
                    <<MLP_params(s)[k],
                      TSub(vals[MLP_params(s)[k]], TScale(learning_rate(s), gp[k]))>>),
            gparams(s, vals, index))

\* The shared variables after a compiled function has applied its updates: every
\* new value was computed from the old values.
apply_updates(vals, upd) ==
    Strict1(LAMBDA u :
                [p \in DOMAIN vals |->
                    IF \E k \in 1 .. Len(u) : u[k][1] = p
                    THEN u[CHOOSE k \in 1 .. Len(u) : u[k][1] = p][2]
                    ELSE vals[p]],
            upd)

\* train_model(index): outputs cost and performs updates.
train_model(s, vals, index) ==
    [outputs |-> cost(s, vals, index),
     shared |-> apply_updates(vals, updates(s, vals, index))]

\* A variant of test_model: compiled with updates=updates, as train_model is.
test_model_with_updates(s, vals, index) ==
    [outputs |-> <<Tensor(<<>>, <<cost(s, vals, index)>>)>>,
     shared |-> apply_updates(vals, updates(s, vals, index))]

\* test_model(index): its outputs; it has no updates.
test_model(s, vals, index) ==
    Strict2(LAMBDA g, c :
                [outputs |->
                    IF s = "example2"
                    THEN <<g.x, g.output, c, vals["hidden_layer.W"], vals["hidden_layer.b"],
                           vals["output_layer.W"], vals["output_layer.b"]>>
                    ELSE <<vals["conv_layer.W"], vals["hidden_layer.b"],
                           vals["output_layer.W"], vals["output_layer.b"], g.output, c>>,
                 shared |-> vals],
            graph(s, vals, index),
            Tensor(<<>>, <<cost(s, vals, index)>>))

\* ------------------------------------------------------------- state

VARIABLES
    script,        \* which script's main runs
    pc,            \* the place in main: "pretest", "loop", "posttest", "done"
    n_iterations,  \* the count of the training loop (1000, 10000 in the scripts)
    iteration,     \* the iterations of the training loop completed
    stmt,          \* in the training loop: 0 at its head, else the statement of its body
    i,             \* the index of the test loops before and after training
    shared,        \* the values of the shared variables (the parameters)
    result,        \* the outputs of the last call of train_model or test_model
    initial,       \* history: the parameters as constructed
    pre,           \* history: the parameters before the last call of train_model
    trained,       \* history: the index of every call of train_model, in order
    layer_call,    \* an OutputLayer constructed on given tensors, and errors(y) on it
    conv_call,     \* a call of ConvolutionalLayer.__init__
    net,           \* a NeuralNet and the accelerator behind it
    batch_call     \* a request of a training point, or of a data dimension, by index

mainVars == <<script, pc, n_iterations, iteration, stmt, i, shared, result,
              initial, pre, trained>>

vars == <<script, pc, n_iterations, iteration, stmt, i, shared, result,
          initial, pre, trained, layer_call, conv_call, net, batch_call>>

\* ------------------------------------------------------------- construction

\* The values np.random.uniform may draw for a weight: the model draws one value
\* for all the weights of a layer.
InitWeights == {-(Scale \div 2), Scale \div 100, Scale \div 2}

\* |w| <= W_bound = sqrt(6 / (n_in + n_nodes)).
within_W_bound(w, fan_in, fan_out) == w * w * (fan_in + fan_out) <= 6 * Scale * Scale

\* The shared variables the constructors of the layers create.
constructed(s) ==
    IF s = "example2"
    THEN {[p \in {"hidden_layer.W", "hidden_layer.b", "output_layer.W", "output_layer.b"} |->
            CASE p = "hidden_layer.W" -> Fill(<<n_in(s), n_hidden(s)>>, 1 * Scale * 2)
              [] p = "hidden_layer.b" -> Fill(<<n_hidden(s)>>, 0)
              [] p = "output_layer.W" -> Fill(<<n_hidden(s), n_out(s)>>, 1 * Scale * 2)
              [] p = "output_layer.b" -> Fill(<<n_out(s)>>, 0)]}
    ELSE {[p \in {"hidden_layer.W", "hidden_layer.b", "output_layer.W", "output_layer.b",
                  "conv_layer.W", "conv_layer.b"} |->
            CASE p = "hidden_layer.W" -> Fill(<<n_in(s), n_hidden(s)>>, wh)
              [] p = "hidden_layer.b" -> Fill(<<n_hidden(s)>>, 0)
              [] p = "output_layer.W" -> Fill(<<n_hidden(s), n_out(s)>>, wo)
              [] p = "output_layer.b" -> Fill(<<n_out(s)>>, 0)
              [] p = "conv_layer.W" -> Fill(filter_shapes[1], wc)
              [] p = "conv_layer.b" -> Fill(<<filter_shapes[1][1]>>, 0)] :
          wh \in {w \in InitWeights : within_W_bound(w, n_in(s), n_hidden(s))},
          wo \in {w \in InitWeights : within_W_bound(w, n_hidden(s), n_out(s))},
          wc \in {w \in InitWeights :
                    within_W_bound(w, ConvolutionalLayer_fan_in(filter_shapes[1]),
                                   ConvolutionalLayer_fan_out(filter_shapes[1], input_shape,
                                                              strides[1]))}}

\* A variant of the body of the training loop: the index advances with the
\* iteration.
loop_body_advancing(s) ==
    <<[op |-> "train_model", index |-> iteration % n_train_points(s)]>>

\* The statements of the body of the training loop.
loop_body(s) ==
    IF s = "example2"
    THEN <<[op |-> "train_model", index |-> 0]>>
    ELSE <<[op |-> "train_model", index |-> 0], [op |-> "train_model", index |-> 1],
           [op |-> "test_model", index |-> 0], [op |-> "test_model", index |-> 1]>>

\* A variant of range_has_next: the body runs once before the count is looked at.
range_has_next_after_first(k, n) == k < n \/ k = 0

\* for iteration in range(n_iterations): whether the loop runs its body again.
range_has_next(k, n) == k < n

NoResult == <<>>

\* main is not run.
MainIdle ==
    /\ script = "example2"
    /\ pc = "idle"
    /\ n_iterations = 0
    /\ iteration = 0
    /\ stmt = 0
    /\ i = 0
    /\ shared = <<>>
    /\ initial = <<>>
    /\ pre = <<>>
    /\ trained = <<>>
    /\ result = NoResult

IdleLayerCall == [pc |-> "idle"]

IdleConvCall == [pc |-> "idle"]

IdleNet == [pc |-> "idle"]

IdleBatchCall == [pc |-> "idle"]

MainInit ==
    /\ script \in Scripts
    /\ n_iterations \in 0 .. MaxIterations
    /\ shared \in constructed(script)
    /\ initial = shared
    /\ pre = shared
    /\ trained = <<>>
    /\ result = NoResult
    /\ pc = "pretest"
    /\ i = 0
    /\ iteration = 0
    /\ stmt = 0

\* for i in range(n_train_points): result = test_model(i), before the training.
PreTest ==
    /\ pc = "pretest"
    /\ IF range_has_next(i, n_train_points(script))
       THEN /\ result' = test_model(script, shared, i).outputs
            /\ shared' = test_model(script, shared, i).shared
            /\ i' = i + 1
            /\ pc' = pc
       ELSE /\ pc' = "loop"
            /\ i' = 0
            /\ UNCHANGED <<result, shared>>
    /\ UNCHANGED <<script, n_iterations, iteration, stmt, initial, pre, trained>>
    /\ UNCHANGED <<layer_call, conv_call, net, batch_call>>

\* A variant of the head of the training loop: a convergence check ends the loop
\* as soon as a cost of at most 3 has been seen.
LoopHead_until_converged ==
    /\ pc = "loop"
    /\ stmt = 0
    /\ IF /\ range_has_next(iteration, n_iterations)
          /\ ~(trained # <<>> /\ result[Len(result)].data[1] <= 3 * Scale)
       THEN /\ stmt' = 1
            /\ pc' = pc
       ELSE /\ stmt' = 0
            /\ pc' = IF script = "example2" THEN "posttest" ELSE "done"
    /\ UNCHANGED <<script, n_iterations, iteration, i, shared, result, initial, pre, trained>>
    /\ UNCHANGED <<layer_call, conv_call, net, batch_call>>

\* The head of the training loop: for iteration in range(n_iterations).
LoopHead ==
    /\ pc = "loop"
    /\ stmt = 0
    /\ IF range_has_next(iteration, n_iterations)
       THEN /\ stmt' = 1
            /\ pc' = pc
       ELSE /\ stmt' = 0
            /\ pc' = IF script = "example2" THEN "posttest" ELSE "done"
    /\ UNCHANGED <<script, n_iterations, iteration, i, shared, result, initial, pre, trained>>
    /\ UNCHANGED <<layer_call, conv_call, net, batch_call>>

\* The place after statement stmt of the body: the next statement, or the head
\* of the loop with one more iteration completed.
AfterStatement ==
    IF stmt < Len(loop_body(script))
    THEN /\ stmt' = stmt + 1
         /\ iteration' = iteration
    ELSE /\ stmt' = 0
         /\ iteration' = iteration + 1

\* cost = train_model(index), in the training loop.
TrainModel ==
    /\ pc = "loop"
    /\ stmt >= 1
    /\ loop_body(script)[stmt].op = "train_model"
    /\ LET r == train_model(script, shared, loop_body(script)[stmt].index)
       IN  /\ result' = <<Tensor(<<>>, <<r.outputs>>)>>
           /\ shared' = r.shared
    /\ pre' = shared
    /\ trained' = Append(trained, loop_body(script)[stmt].index)
    /\ AfterStatement
    /\ UNCHANGED <<script, pc, n_iterations, i, initial>>
    /\ UNCHANGED <<layer_call, conv_call, net, batch_call>>

\* result = test_model(index), in the training loop.
TestModel ==
    /\ pc = "loop"
    /\ stmt >= 1
    /\ loop_body(script)[stmt].op = "test_model"
    /\ LET r == test_model(script, shared, loop_body(script)[stmt].index)
       IN  /\ result' = r.outputs
           /\ shared' = r.shared
    /\ AfterStatement
    /\ UNCHANGED <<script, pc, n_iterations, i, initial, pre, trained>>
    /\ UNCHANGED <<layer_call, conv_call, net, batch_call>>

\* for i in range(n_train_points): result = test_model(i), after the training.
PostTest ==
    /\ pc = "posttest"
    /\ IF range_has_next(i, n_train_points(script))
       THEN /\ result' = test_model(script, shared, i).outputs
            /\ shared' = test_model(script, shared, i).shared
            /\ i' = i + 1
            /\ pc' = pc
       ELSE /\ pc' = "done"
            /\ i' = 0
            /\ UNCHANGED <<result, shared>>
    /\ UNCHANGED <<script, n_iterations, iteration, stmt, initial, pre, trained>>
    /\ UNCHANGED <<layer_call, conv_call, net, batch_call>>

Init ==
    /\ MainInit
    /\ layer_call = IdleLayerCall
    /\ conv_call = IdleConvCall
    /\ net = IdleNet
    /\ batch_call = IdleBatchCall

Next == PreTest \/ LoopHead \/ TrainModel \/ TestModel \/ PostTest

Spec == Init /\ [][Next]_vars

\* ---------------------------------------- OutputLayer on given tensors

\* The inputs of the layer: MaxDim x MaxDim matrices of 0 and 1.
LayerInputs ==
    {Tensor(<<MaxDim, MaxDim>>,
            MkSeq(MaxDim * MaxDim, LAMBDA q : IF (q + k) % 3 = 0 THEN 1 * Scale ELSE 0)) :
        k \in 0 .. 2}

\* The shapes of y: one or two dimensions, each of 1 .. MaxDim.
TargetShapes ==
    {<<r>> : r \in 1 .. MaxDim} \cup {<<r, c>> : r \in 1 .. MaxDim, c \in 1 .. MaxDim}

LayerInit ==
    /\ MainIdle
    /\ conv_call = IdleConvCall
    /\ net = IdleNet
    /\ batch_call = IdleBatchCall
    /\ layer_call \in
          {[pc |-> "new", input |-> x, W |-> Fill(<<MaxDim, n>>, w), b |-> Fill(<<n>>, bias),
            threshold |-> t, y |-> Fill(shape, v)] :
              x \in LayerInputs, n \in 1 .. MaxDim, w \in {-Scale, Scale},
              bias \in {0, Scale \div 2}, t \in {0 * Scale, 1 * Scale},
              shape \in TargetShapes, v \in {0, Scale, 2 * Scale}}

\* OutputLayer.__init__: W and b are given, the output is the rectified
\* lin_output.
OutputLayerInit ==
    /\ layer_call.pc = "new"
    /\ layer_call' =
          [pc |-> "constructed", input |-> layer_call.input, W |-> layer_call.W,
           b |-> layer_call.b, threshold |-> layer_call.threshold, y |-> layer_call.y,
           output |-> OutputLayer_output(layer_call.input, layer_call.W, layer_call.b,
                                         layer_call.threshold)]
    /\ UNCHANGED mainVars
    /\ UNCHANGED <<conv_call, net, batch_call>>

\* OutputLayer.errors(y): TypeError, or the cost expression is returned.
Errors ==
    /\ layer_call.pc = "constructed"
    /\ layer_call' =
          [layer_call EXCEPT
              !.pc = IF errors_raises(layer_call.output, layer_call.y)
                     THEN "TypeError" ELSE "returned"]
    /\ UNCHANGED mainVars
    /\ UNCHANGED <<conv_call, net, batch_call>>

\* The returned cost expression evaluated on an output and a y of one shape.
\* (On tensors of different shapes its value is the tensor engine's business.)
EvaluateCost ==
    /\ layer_call.pc = "returned"
    /\ layer_call.output.shape = layer_call.y.shape
    /\ layer_call' =
          [pc |-> "evaluated", input |-> layer_call.input, W |-> layer_call.W,
           b |-> layer_call.b, threshold |-> layer_call.threshold, y |-> layer_call.y,
           output |-> layer_call.output,
           cost |-> errors_value(layer_call.output, layer_call.y)]
    /\ UNCHANGED mainVars
    /\ UNCHANGED <<conv_call, net, batch_call>>

LayerNext == OutputLayerInit \/ Errors \/ EvaluateCost

LayerSpec == LayerInit /\ [][LayerNext]_vars

\* ---------------------------------------- ConvolutionalLayer.__init__

\* A variant of the constructor: the channels are compared only after the
\* weights and the bias have been created.
ConvolutionalLayer_init_late_assert(filter_shape, image_shape, stride, w) ==
    IF image_shape[2] # filter_shape[2]
    THEN [raised |-> "AssertionError",
          attributes |-> {"input", "fan_in", "fan_out", "W", "b"}]
    ELSE [raised |-> "none",
          attributes |-> {"input", "fan_in", "fan_out", "W", "b", "threshold", "output",
                          "params"}]

\* ConvolutionalLayer.__init__(input_images, filter_shape, image_shape, stride),
\* with w the value np.random.uniform draws for the weights: the exception it
\* raises and the attributes of the layer it has set.
ConvolutionalLayer_init(filter_shape, image_shape, stride, w) ==
    IF image_shape[2] # filter_shape[2]
    THEN [raised |-> "AssertionError", attributes |-> {}]
    ELSE [raised |-> "none",
          attributes |-> {"input", "fan_in", "fan_out", "W", "b", "threshold", "output",
                          "params"},
          fan_in |-> ConvolutionalLayer_fan_in(filter_shape),
          fan_out |-> ConvolutionalLayer_fan_out(filter_shape, image_shape, stride),
          W |-> Fill(filter_shape, w),
          b |-> Fill(<<filter_shape[1]>>, 0),
          threshold |-> 0,
          params |-> <<"W", "b">>]

\* The weights np.random.uniform(high=W_bound, low=-W_bound) may draw.
conv_weights(filter_shape, image_shape, stride) ==
    {w \in InitWeights \cup {0} :
        within_W_bound(w, ConvolutionalLayer_fan_in(filter_shape),
                       ConvolutionalLayer_fan_out(filter_shape, image_shape, stride))}

ConvInit ==
    /\ MainIdle
    /\ layer_call = IdleLayerCall
    /\ net = IdleNet
    /\ batch_call = IdleBatchCall
    /\ conv_call \in
          {[pc |-> "new",
            image_shape |-> <<1, c1, S, S>>,
            filter_shape |-> <<F, c2, K, K>>,
            stride |-> st] :
              c1 \in 1 .. MaxChannels, c2 \in 1 .. MaxChannels,
              S \in FilterSize .. ImageSize, K \in 1 .. FilterSize,
              F \in 1 .. NumFilters + 1, st \in 1 .. Stride + 1}

\* A call of ConvolutionalLayer(input_images, filter_shape, image_shape, stride).
ConvolutionalLayerInit ==
    /\ conv_call.pc = "new"
    /\ \E w \in conv_weights(conv_call.filter_shape, conv_call.image_shape,
                            conv_call.stride) :
          conv_call' =
              [pc |-> "returned",
               image_shape |-> conv_call.image_shape,
               filter_shape |-> conv_call.filter_shape,
               stride |-> conv_call.stride,
               layer |-> ConvolutionalLayer_init(conv_call.filter_shape,
                                                 conv_call.image_shape,
                                                 conv_call.stride, w)]
    /\ UNCHANGED mainVars
    /\ UNCHANGED <<layer_call, net, batch_call>>

ConvNext == ConvolutionalLayerInit

ConvSpec == ConvInit /\ [][ConvNext]_vars

\* ------------------------------------------------------------- NeuralNet

\* The shapes (rows, batch size) of the arrays passed to train and predict.
ArrayShapes == {<<n, m>> : n \in 1 .. MaxDim, m \in 1 .. MaxDim}

\* libmodel (the GPU training library, module convnet): startBatch and
\* startFeatureWriter hand a batch to the accelerator and return at once.
startBatch(libmodel) ==
    [outstanding |-> libmodel.outstanding + 1, gpu |-> "busy"]

startFeatureWriter(libmodel) ==
    [outstanding |-> libmodel.outstanding + 1, gpu |-> "busy"]

\* libmodel.finishBatch() returns once the accelerator has finished the batch.
finishBatch_can_return(libmodel) == libmodel.gpu = "finished"

finishBatch(libmodel) ==
    [outstanding |-> libmodel.outstanding - 1, gpu |-> "idle"]

\* NeuralNet(nr_inputs, nr_outputs, ...): the net after its construction.
NeuralNet_init(nr_inputs, nr_outputs) ==
    [pc |-> "idle",
     nr_inputs |-> nr_inputs,
     nr_outputs |-> nr_outputs,
     dims |-> <<nr_inputs, nr_outputs>>,
     libmodel |-> [outstanding |-> 0, gpu |-> "idle"],
     calls |-> 0,
     raised |-> "none",
     batch_size |-> 0]

NetInit ==
    /\ MainIdle
    /\ layer_call = IdleLayerCall
    /\ conv_call = IdleConvCall
    /\ batch_call = IdleBatchCall
    /\ net \in {NeuralNet_init(nr_inputs, nr_outputs) :
                   nr_inputs \in 1 .. MaxDim, nr_outputs \in 1 .. MaxDim}

\* A variant of train: it returns as soon as the batch is handed over.
Train_without_wait ==
    /\ net.pc = "idle"
    /\ net.calls < MaxCalls
    /\ \E inputs \in ArrayShapes, outputs \in ArrayShapes :
          IF /\ inputs[1] = net.nr_inputs
             /\ outputs[1] = net.nr_outputs
             /\ inputs[2] = outputs[2]
          THEN net' = [net EXCEPT !.libmodel = startBatch(net.libmodel),
                                  !.calls = @ + 1,
                                  !.raised = "none",
                                  !.batch_size = inputs[2]]
          ELSE net' = [net EXCEPT !.calls = @ + 1, !.raised = "AssertionError"]
    /\ UNCHANGED mainVars
    /\ UNCHANGED <<layer_call, conv_call, batch_call>>

\* net.train(inputs, outputs) up to the return of startBatch: the three
\* asserts, then the batch is handed to the accelerator.
Train ==
    /\ net.pc = "idle"
    /\ net.calls < MaxCalls
    /\ \E inputs \in ArrayShapes, outputs \in ArrayShapes :
          IF /\ inputs[1] = net.nr_inputs
             /\ outputs[1] = net.nr_outputs
             /\ inputs[2] = outputs[2]
          THEN net' = [net EXCEPT !.pc = "train_finishBatch",
                                  !.libmodel = startBatch(net.libmodel),
                                  !.calls = @ + 1,
                                  !.raised = "none",
                                  !.batch_size = inputs[2]]
          ELSE net' = [net EXCEPT !.calls = @ + 1, !.raised = "AssertionError"]
    /\ UNCHANGED mainVars
    /\ UNCHANGED <<layer_call, conv_call, batch_call>>

\* net.predict(inputs) up to the return of startFeatureWriter.
Predict ==
    /\ net.pc = "idle"
    /\ net.calls < MaxCalls
    /\ \E inputs \in ArrayShapes :
          IF inputs[1] = net.nr_inputs
          THEN net' = [net EXCEPT !.pc = "predict_finishBatch",
                                  !.libmodel = startFeatureWriter(net.libmodel),
                                  !.calls = @ + 1,
                                  !.raised = "none",
                                  !.batch_size = inputs[2]]
          ELSE net' = [net EXCEPT !.calls = @ + 1, !.raised = "AssertionError"]
    /\ UNCHANGED mainVars
    /\ UNCHANGED <<layer_call, conv_call, batch_call>>

\* The accelerator finishes the batch it was handed.
AcceleratorFinishes ==
    /\ net.libmodel.gpu = "busy"
    /\ net' = [net EXCEPT !.libmodel.gpu = "finished"]
    /\ UNCHANGED mainVars
    /\ UNCHANGED <<layer_call, conv_call, batch_call>>

\* The rest of train and of predict: finishBatch returns, and so does the call.
FinishBatch ==
    /\ net.pc \in {"train_finishBatch", "predict_finishBatch"}
    /\ finishBatch_can_return(net.libmodel)
    /\ net' = [net EXCEPT !.pc = "idle", !.libmodel = finishBatch(net.libmodel)]
    /\ UNCHANGED mainVars
    /\ UNCHANGED <<layer_call, conv_call, batch_call>>

NetNext == Train \/ Predict \/ AcceleratorFinishes \/ FinishBatch

NetSpec == NetInit /\ [][NetNext]_vars

\* --------------------------------------------- training points by index

\* The indexes a caller may pass.
Indexes == -MaxIndex .. MaxIndex

\* array[index] along the first axis, as the tensor library evaluates
\* train_set_x[index]: an index from -len to -1 counts from the end.
getitem(array, index) ==
    IF 0 <= index /\ index < Len(array)
    THEN [raised |-> "none", value |-> array[index + 1]]
    ELSE IF -Len(array) <= index /\ index < 0
    THEN [raised |-> "none", value |-> array[Len(array) + index + 1]]
    ELSE [raised |-> "IndexError"]

\* The givens of train_model and of test_model: x is train_set_x[index] and y is
\* train_set_y[index].
givens(s, index) ==
    LET x == getitem(train_set_x(s), index)
        y == getitem(train_set_y(s), index)
    IN  IF x.raised # "none" THEN [raised |-> x.raised]
        ELSE IF y.raised # "none" THEN [raised |-> y.raised]
        ELSE [raised |-> "none", value |-> <<x.value, y.value>>]

\* SimpleDataProvider.dims before any NeuralNet is constructed.
None == <<>>

\* The values SimpleDataProvider.dims takes: None, or the (nr_inputs, nr_outputs)
\* of the NeuralNet constructed last.
ProviderDims ==
    {None} \cup {NeuralNet_init(nr_inputs, nr_outputs).dims :
                    nr_inputs \in 1 .. MaxDim, nr_outputs \in 1 .. MaxDim}

\* A variant of get_data_dims: only the upper end of the range is asserted.
get_data_dims_no_lower_bound(dims, idx) ==
    IF dims = None
    THEN [raised |-> "AssertionError"]
    ELSE IF ~(idx < Len(dims))
    THEN [raised |-> "AssertionError"]
    ELSE getitem(dims, idx)

\* SimpleDataProvider.get_data_dims(idx).
get_data_dims(dims, idx) ==
    IF dims = None
    THEN [raised |-> "AssertionError"]
    ELSE IF ~(idx >= 0 /\ idx < Len(dims))
    THEN [raised |-> "AssertionError"]
    ELSE getitem(dims, idx)

BatchInit ==
    /\ MainIdle
    /\ layer_call = IdleLayerCall
    /\ conv_call = IdleConvCall
    /\ net = IdleNet
    /\ batch_call \in
          {[pc |-> "ready", adapter |-> s, dims |-> None, calls |-> 0] : s \in Scripts}
          \cup {[pc |-> "ready", adapter |-> "SimpleDataProvider", dims |-> d, calls |-> 0] :
                   d \in ProviderDims}

\* A call train_model(index) or test_model(index) of a script takes its
\* training point.
Givens ==
    /\ batch_call.pc \in {"ready", "returned"}
    /\ batch_call.adapter \in Scripts
    /\ batch_call.calls < MaxCalls
    /\ \E index \in Indexes :
          batch_call' = [pc |-> "returned",
                         adapter |-> batch_call.adapter,
                         dims |-> batch_call.dims,
                         calls |-> batch_call.calls + 1,
                         index |-> index,
                         got |-> givens(batch_call.adapter, index)]
    /\ UNCHANGED mainVars
    /\ UNCHANGED <<layer_call, conv_call, net>>

\* A call get_data_dims(idx) of a SimpleDataProvider.
GetDataDims ==
    /\ batch_call.pc \in {"ready", "returned"}
    /\ batch_call.adapter = "SimpleDataProvider"
    /\ batch_call.calls < MaxCalls
    /\ \E idx \in Indexes :
          batch_call' = [pc |-> "returned",
                         adapter |-> batch_call.adapter,
                         dims |-> batch_call.dims,
                         calls |-> batch_call.calls + 1,
                         index |-> idx,
                         got |-> get_data_dims(batch_call.dims, idx)]
    /\ UNCHANGED mainVars
    /\ UNCHANGED <<layer_call, conv_call, net>>

BatchNext == Givens \/ GetDataDims

BatchSpec == BatchInit /\ [][BatchNext]_vars

\* The script runs on: every statement that can execute does.
LiveSpec == Spec /\ WF_vars(Next)

\* ------------------------------------------------------------- the claims

\* The layers of classifier in the order of the chain: the layer fed by x first,
\* then the layer fed by its output, and so on.
layer_chain(s) ==
    LET l == MLP_layers(s)
        f[k \in 0 .. Cardinality(DOMAIN l)] ==
            IF k = 0 THEN <<>>
            ELSE LET src == IF k = 1 THEN "x" ELSE f[k - 1][k - 1]
                 IN  Append(f[k - 1], CHOOSE n \in DOMAIN l : l[n].input = src)
    IN  f[Cardinality(DOMAIN l)]

\* The params lists of the layers named by order, concatenated.
params_of(s, order) ==
    LET f[k \in 0 .. Len(order)] ==
            IF k = 0 THEN <<>> ELSE f[k - 1] \o MLP_layers(s)[order[k]].params
    IN  f[Len(order)]

NoDuplicates(seq) == \A a, b \in 1 .. Len(seq) : seq[a] = seq[b] => a = b

\* C1: after every call of train_model, every parameter p (each layer's W and b)
\* equals p - learning_rate * g, where p and the gradient g of the cost are
\* taken at the values the parameters had before the call.
C1_GradientDescentStep ==
    trained # <<>> =>
        \A p \in DOMAIN shared :
            shared[p] = TSub(pre[p],
                             TScale(learning_rate(script),
                                    T_grad(script, pre, trained[Len(trained)], p)))

\* C1 witness: a call of train_model has changed every parameter of example2.py's
\* network.
C1_Witness ==
    /\ trained # <<>>
    /\ script = "example2"
    /\ \A p \in DOMAIN shared : shared[p] # pre[p]

\* C2: when the training loop runs for 0 iterations, every parameter keeps its
\* initial value, in every state of the run.
C2_ZeroIterations == n_iterations = 0 => shared = initial

\* C2 witness: a run of 0 iterations has passed its training loop and ended.
C2_Witness == n_iterations = 0 /\ pc = "done"

\* C3 as claimed: the loop ends after exactly n_iterations iterations, having
\* trained one batch and updated the parameters once per iteration.
C3_OneUpdatePerIteration ==
    pc = "done" => iteration = n_iterations /\ Len(trained) = n_iterations

\* C3 as amended: the run always ends, and when the training loop has ended it
\* has made exactly n_iterations iterations, each of one call of train_model in
\* example2.py and of two calls of train_model in example3.py.
C3_FixedIterationCount ==
    /\ [](pc \in {"posttest", "done"} =>
            /\ iteration = n_iterations
            /\ Len(trained) = IF script = "example2"
                              THEN n_iterations ELSE 2 * n_iterations)
    /\ <>(pc = "done")

\* C3 witness: a training loop of MaxIterations iterations has ended, in
\* example3.py.
C3_Witness ==
    /\ pc = "done"
    /\ script = "example3"
    /\ n_iterations = MaxIterations
    /\ iteration = MaxIterations

\* C7 as claimed: all the calls of train_model of a run train the same index.
C7_SameIndexAlways ==
    \A a, b \in 1 .. Len(trained) : trained[a] = trained[b]

\* C7 as amended: the index of a call of train_model is fixed by its place in the
\* body of the loop and not by the iteration: always 0 in example2.py, 0 and
\* then 1 in every iteration of example3.py.
C7_FixedIndexPattern ==
    \A k \in 1 .. Len(trained) :
        trained[k] = IF script = "example2" THEN 0 ELSE (k - 1) % 2

\* C7 witness: two iterations have trained, in example3.py, the indexes 0, 1, 0, 1.
C7_Witness == script = "example3" /\ trained = <<0, 1, 0, 1>>

\* C9 as claimed: params is the concatenation of the layers' params in the order
\* of the chain, with no parameter twice.
C9_ParamsInChainOrder ==
    /\ MLP_params(script) = params_of(script, layer_chain(script))
    /\ NoDuplicates(MLP_params(script))

\* C9 as amended: params is the concatenation of the params of all the layers
\* with no parameter twice, in the order of the chain in example2.py and with the
\* first layer of the chain (the convolution) last in example3.py.
C9_ParamsConcatenation ==
    /\ NoDuplicates(MLP_params(script))
    /\ MLP_params(script) =
          params_of(script,
                    IF script = "example2"
                    THEN layer_chain(script)
                    ELSE Tail(layer_chain(script)) \o <<Head(layer_chain(script))>>)
    /\ DOMAIN shared = {MLP_params(script)[k] : k \in 1 .. Len(MLP_params(script))}

\* C9 witness: example3.py has trained with its list of parameters.
C9_Witness == script = "example3" /\ trained # <<>> /\ Len(MLP_params(script)) = 6

\* The mean over all elements of the absolute values.
MeanAbs(t) == SumTo(Size(t), LAMBDA q : Abs(t.data[q])) \div Size(t)

Max(a, b) == IF a >= b THEN a ELSE b

\* C4: errors(predicted, target) on tensors of one shape returns
\* mean(|predicted - target|), the mean of the elementwise absolute differences.
C4_MeanAbsoluteError ==
    layer_call.pc = "evaluated" =>
        layer_call.cost = MeanAbs(TSub(layer_call.output, layer_call.y))

\* C5: whenever the shape of y differs from the shape of the output, in rank or
\* in a dimension, errors(y) raises an error and returns no cost.
C5_ShapeMismatchRaises ==
    (/\ layer_call.pc \in {"TypeError", "returned", "evaluated"}
     /\ layer_call.y.shape # layer_call.output.shape)
        => layer_call.pc = "TypeError"

\* C6: every entry of the output of the thresholded layer is
\* max(affine_output - threshold, 0), with affine_output = input . W + b, for the
\* thresholds 0 and 1; no entry is below 0.
C6_RectifiedOutput ==
    layer_call.pc \in {"constructed", "TypeError", "returned", "evaluated"} =>
        LET affine_output == AddBias(Dot(layer_call.input, layer_call.W), layer_call.b)
        IN  /\ layer_call.output.shape = affine_output.shape
            /\ \A q \in 1 .. Size(affine_output) :
                  /\ layer_call.output.data[q] =
                        Max(affine_output.data[q] - layer_call.threshold, 0)
                  /\ layer_call.output.data[q] >= 0

\* C6 witness: a layer of threshold 1 whose output has an entry cut to 0 where
\* the affine output is positive but not above the threshold, and an entry
\* above 0.
C6_Witness ==
    /\ layer_call.pc = "constructed"
    /\ layer_call.threshold = 1 * Scale
    /\ LET affine_output == AddBias(Dot(layer_call.input, layer_call.W), layer_call.b)
       IN  /\ \E q \in 1 .. Size(affine_output) :
                 /\ affine_output.data[q] > 0
                 /\ affine_output.data[q] <= layer_call.threshold
                 /\ layer_call.output.data[q] = 0
           /\ \E q \in 1 .. Size(affine_output) : layer_call.output.data[q] > 0

\* C10: a call of ConvolutionalLayer whose image_shape[1] differs from
\* filter_shape[1] raises an error and has created no weights, no bias and no
\* output (nor anything else) for the layer; with equal channels it raises
\* nothing and has created them.
C10_ChannelMismatchRaises ==
    conv_call.pc = "returned" =>
        IF conv_call.image_shape[2] # conv_call.filter_shape[2]
        THEN /\ conv_call.layer.raised = "AssertionError"
             /\ conv_call.layer.attributes \cap {"W", "b", "output"} = {}
        ELSE /\ conv_call.layer.raised = "none"
             /\ {"W", "b", "output"} \subseteq conv_call.layer.attributes

\* C10 witness: a call with 2 input channels and filters of 1 channel has raised.
C10_Witness ==
    /\ conv_call.pc = "returned"
    /\ conv_call.image_shape[2] = 2
    /\ conv_call.filter_shape[2] = 1
    /\ conv_call.layer.raised = "AssertionError"

\* C8: over any sequence of train and predict calls at most one batch is
\* outstanding, a call is in progress for as long as its batch is, and between
\* calls (where the next batch would be handed over) none is outstanding.
C8_SynchronousProtocol ==
    /\ net.libmodel.outstanding <= 1
    /\ net.pc = "idle" => net.libmodel.outstanding = 0
    /\ net.pc \in {"train_finishBatch", "predict_finishBatch"}
          => net.libmodel.outstanding = 1

\* C8 witness: the third call of a net has handed its batch over and waits,
\* the two calls before it having returned.
C8_Witness ==
    /\ net.pc = "train_finishBatch"
    /\ net.calls = 3
    /\ net.libmodel.outstanding = 1
    /\ net.libmodel.gpu = "busy"

\* The entries a request by index ranges over: the training points of a script,
\* the dimensions of a data provider.
entries_of(call) ==
    IF call.adapter \in Scripts
    THEN MkSeq(n_train_points(call.adapter), LAMBDA k :
             <<train_set_x(call.adapter)[k], train_set_y(call.adapter)[k]>>)
    ELSE call.dims

\* C11 as claimed: a request by an index outside [0, num_batches) fails, the
\* negative indexes included, in every adapter, and a request by an index inside
\* the range returns the entry at that index.
C11_OutOfRangeFails ==
    batch_call.pc = "returned" =>
        IF 0 <= batch_call.index /\ batch_call.index < Len(entries_of(batch_call))
        THEN /\ batch_call.got.raised = "none"
             /\ batch_call.got.value = entries_of(batch_call)[batch_call.index + 1]
        ELSE batch_call.got.raised # "none"

\* C11, amended: get_data_dims fails for every index outside [0, len(dims)) and
\* returns dims[idx] inside it.  The training point of a script is taken without
\* a check of the lower end: an index i >= n or i < -n fails, an index
\* 0 <= i < n gives point i, and an index -n <= i < 0 gives point n + i.
C11_IndexedRequest ==
    batch_call.pc = "returned" =>
        LET entries == entries_of(batch_call)
            n == Len(entries)
            idx == batch_call.index
        IN  IF 0 <= idx /\ idx < n
            THEN /\ batch_call.got.raised = "none"
                 /\ batch_call.got.value = entries[idx + 1]
            ELSE IF batch_call.adapter \in Scripts /\ -n <= idx /\ idx < 0
            THEN /\ batch_call.got.raised = "none"
                 /\ batch_call.got.value = entries[n + idx + 1]
            ELSE batch_call.got.raised # "none"

\* C11 witness: get_data_dims(-1) has failed on a provider whose dims are set.
C11_Witness ==
    /\ batch_call.pc = "returned"
    /\ batch_call.adapter = "SimpleDataProvider"
    /\ batch_call.dims # None
    /\ batch_call.index = -1
    /\ batch_call.got.raised = "AssertionError"

\* C12: the parameters are written by train_model only.  In every state of a
\* run the parameters are those the last call of train_model left (pre and
\* trained record the parameters before that call and its index), or the
\* constructed ones when train_model has not been called: so no call of
\* test_model, wherever it stands among the calls of train_model, has changed a
\* parameter.  And every update of train_model writes the parameter it names and
\* no other: applied alone to the old values it gives that parameter its new
\* value and leaves the parameters of the other layers, and the other parameter
\* of its own layer, unchanged.
C12_OnlyTrainingWrites ==
    IF trained = <<>>
    THEN shared = initial
    ELSE LET u == updates(script, pre, trained[Len(trained)])
         IN  /\ NoDuplicates(MkSeq(Len(u), LAMBDA k : u[k][1]))
             /\ {u[k][1] : k \in 1 .. Len(u)} = DOMAIN shared
             /\ \A k \in 1 .. Len(u) :
                   LET alone == apply_updates(pre, <<u[k]>>)
                   IN  /\ alone[u[k][1]] = shared[u[k][1]]
                       /\ \A q \in DOMAIN shared \ {u[k][1]} : alone[q] = pre[q]

\* C12 witness: in example3.py test_model has been called in an iteration of the
\* training loop, after train_model has changed a parameter, and the next
\* iteration is to come.
C12_Witness ==
    /\ script = "example3"
    /\ pc = "loop"
    /\ stmt = 0
    /\ iteration = 1
    /\ n_iterations > 1
    /\ Len(result) = 6
    /\ shared # initial

====
